---- MODULE Spec2Model ----
(***************************************************************************)
(* A model of auth0_user_creator.py: the token decoder, the role resolver, *)
(* the two-step user provisioner, the sequential batch loop of main() and  *)
(* the result store (save_results).  The network and the operator are the  *)
(* environment: every HTTP response, every line typed at the prompt and    *)
(* the success of every write of the output file are chosen by \E.         *)
(***************************************************************************)
EXTENDS Integers, Sequences, FiniteSets, TLC

\* ------------------------------------------------------------------ bounds
MaxNum == 3          \* --start and --end are drawn from 1..MaxNum
MaxOld == 1          \* length of the array already in the output file
MaxRoles == 2        \* length of the role list the API returns
MaxInputLen == 2     \* characters of one line typed at the prompt
MaxPrompts == 2      \* lines typed at the prompt that are recorded
MaxSaves == 2        \* calls of save_results in the result-store harness

\* --------------------------------------------------------- string helpers
RECURSIVE Join(_)
\* ''.join(parts)
Join(parts) == IF parts = <<>> THEN "" ELSE Head(parts) \o Join(Tail(parts))

Digits == <<"0", "1", "2", "3", "4", "5", "6", "7", "8", "9">>

RECURSIVE Str(_)
\* str(num) of an integer
Str(n) ==
    IF n < 0 THEN "-" \o Str(0 - n)
    ELSE IF n < 10 THEN Digits[n + 1]
    ELSE Str(n \div 10) \o Digits[(n % 10) + 1]

\* s.replace(old, new) on a string kept as its sequence of pieces
Replace(s, old, new) == [i \in DOMAIN s |-> IF s[i] = old THEN new ELSE s[i]]

\* old in s
Contains(s, piece) == \E i \in DOMAIN s : s[i] = piece

Placeholder == "{$}"
ApiPath == "/api/v2/"

\* ----------------------------------------------------------- token decoder
\* base64.b64decode(payload).decode('utf-8') then json.loads: the middle
\* segments the model knows, by what they decode to.
B64JsonDecode(segment) ==
    CASE segment = "seg_not_base64" -> [ok |-> FALSE]
      [] segment = "seg_not_json"   -> [ok |-> FALSE]
      [] segment = "seg_number"     -> [ok |-> TRUE, type |-> "number",
                                        claims |-> [k \in {} |-> <<>>]]
      [] segment = "seg_no_aud"     -> [ok |-> TRUE, type |-> "object",
                                        claims |-> [k \in {"iss"} |-> <<"https://t.example/">>]]
      [] segment = "seg_aud_other"  -> [ok |-> TRUE, type |-> "object",
                                        claims |-> [k \in {"aud"} |-> <<"https://t.example", "/userinfo">>]]
      [] segment = "seg_aud_api"    -> [ok |-> TRUE, type |-> "object",
                                        claims |-> [k \in {"aud"} |-> <<"https://t.example", ApiPath>>]]
      [] OTHER                      -> [ok |-> FALSE]

\* len(parts) != 3
SegmentCountOk(parts) == Len(parts) = 3

\* decode_jwt_payload: exits on a segment count other than 3 or on a middle
\* segment that does not decode; a token is kept as token.split('.')
DecodeJwtPayload(token) ==
    IF ~SegmentCountOk(token) THEN [exit |-> TRUE]
    ELSE LET d == B64JsonDecode(token[2])
         IN IF d.ok THEN [exit |-> FALSE, type |-> d.type, claims |-> d.claims]
            ELSE [exit |-> TRUE]

HasApiPathAlways(aud) == TRUE

\* '/api/v2/' in aud
HasApiPath(aud) == Contains(aud, ApiPath)

\* extract_api_url_from_token: the aud claim verbatim, or exit 1.  A payload
\* that is JSON but no object makes "'aud' in payload" raise TypeError, which
\* nothing catches: the interpreter exits 1 as well.
ExtractApiUrlFromToken(token) ==
    LET p == DecodeJwtPayload(token)
    IN IF p.exit THEN [exit |-> TRUE]
       ELSE IF p.type # "object" THEN [exit |-> TRUE]
       ELSE IF "aud" \notin DOMAIN p.claims THEN [exit |-> TRUE]
       ELSE IF ~HasApiPath(p.claims["aud"]) THEN [exit |-> TRUE]
       ELSE [exit |-> FALSE, api_url |-> Join(p.claims["aud"])]

\* ------------------------------------------------------------ role resolver
mock_roles ==
    << [id |-> "rol_1", name |-> "Admin"],
       [id |-> "rol_2", name |-> "User"],
       [id |-> "rol_3", name |-> "Editor"] >>

InputChars == {"-", "0", "1", "2", "3", "x"}

DigitValue(c) == CHOOSE d \in 0..9 : Digits[d + 1] = c

IsDigit(c) == \E d \in 0..9 : Digits[d + 1] = c

RECURSIVE DigitsValue(_)
DigitsValue(cs) ==
    IF cs = <<>> THEN 0
    ELSE DigitsValue(SubSeq(cs, 1, Len(cs) - 1)) * 10 + DigitValue(cs[Len(cs)])

\* int(selection): an optional sign and at least one digit, or ValueError
ParseInt(line) ==
    LET body == IF line # <<>> /\ Head(line) = "-" THEN Tail(line) ELSE line
    IN IF body = <<>> \/ \E i \in DOMAIN body : ~IsDigit(body[i])
       THEN [ok |-> FALSE]
       ELSE [ok |-> TRUE,
             value |-> IF Head(line) = "-" THEN 0 - DigitsValue(body) ELSE DigitsValue(body)]

IsValidIndexNoLower(selection_idx, n) == selection_idx < n

\* 0 <= selection_idx < len(roles)
IsValidIndex(selection_idx, n) == 0 <= selection_idx /\ selection_idx < n

\* roles[i] of a Python list: a negative index counts from the end
PyIndexInRange(list, i) == i < Len(list) /\ 0 - Len(list) <= i
PyIndex(list, i) == IF i >= 0 THEN list[i + 1] ELSE list[Len(list) + i + 1]

\* One pass of the "while True" body of prompt_role_selection on one line of
\* standard input: ValueError and an out-of-range number print and loop; a
\* number in range returns the role's id.
PromptOnce(list, line) ==
    LET parsed == ParseInt(line)
        selection_idx == parsed.value - 1
    IN IF ~parsed.ok THEN [returned |-> FALSE, raised |-> FALSE]
       ELSE IF ~IsValidIndex(selection_idx, Len(list)) THEN [returned |-> FALSE, raised |-> FALSE]
       ELSE IF ~PyIndexInRange(list, selection_idx) THEN [returned |-> FALSE, raised |-> TRUE]
       ELSE [returned |-> TRUE, raised |-> FALSE, role_id |-> PyIndex(list, selection_idx).id]

\* --------------------------------------------------------- user provisioner
ConnectionName == "Username-Password-Authentication"

\* requests.get / requests.post: the call is recorded unless debug
IssueRequestAlways(log, request, debug) == Append(log, request)

IssueRequest(log, request, debug) == IF debug THEN log ELSE Append(log, request)

CreateOkAlways(status) == TRUE

\* user_response.status_code != 201
CreateOk(status) == status = 201

AssignOkAlways(status) == TRUE

\* role_response.status_code != 204
AssignOk(status) == status = 204

\* args.email.replace("{$}", str(num)), as pieces and as the string
EmailPieces(template, n) == Replace(template, Placeholder, Str(n))
Email(template, n) == Join(EmailPieces(template, n))

\* f"auth0|debug-{email.replace('@', '-at-')}"
MockUserId(emailPieces) == "auth0|debug-" \o Join(Replace(emailPieces, "@", "-at-"))

\* the mock_response of debug mode (its fields that are read or saved)
MockResponse(emailPieces) ==
    [user_id |-> MockUserId(emailPieces), email |-> Join(emailPieces), email_verified |-> TRUE]

\* user_response.json() of a 201: the server names the new user
ServerUser(emailPieces) ==
    [user_id |-> "auth0|srv-" \o Join(emailPieces), email |-> Join(emailPieces),
     email_verified |-> TRUE]

CreateUserRequest(api, emailPieces) ==
    [op |-> "create", method |-> "POST", url |-> api \o "users",
     body |-> [email |-> Join(emailPieces), connection |-> ConnectionName,
               password |-> "Temp1234!", email_verified |-> TRUE]]

AssignRoleRequest(api, userId, roleId) ==
    [op |-> "assign", method |-> "POST", url |-> api \o "users/" \o userId \o "/roles",
     body |-> [roles |-> <<roleId>>]]

RolesRequest(api) == [op |-> "roles", method |-> "GET", url |-> api \o "roles", body |-> [none |-> TRUE]]

CreateFailed(status) ==
    [success |-> FALSE, error |-> "Failed to create user", status_code |-> status]

AssignFailed(u, status) ==
    [success |-> FALSE, error |-> "Failed to assign role", user_created |-> u,
     status_code |-> status]

Provisioned(u) == [success |-> TRUE, user |-> u, role_assigned |-> TRUE]

ProvisionedDebug(u) ==
    [success |-> TRUE, user |-> u, role_assigned |-> TRUE, debug_mode |-> TRUE]

\* -------------------------------------------------------------- result store
AbsentFile == [kind |-> "absent", data |-> <<>>]
InvalidFile == [kind |-> "invalid", data |-> <<>>]
NonArrayFile == [kind |-> "nonarray", data |-> <<>>]
ArrayFile(data) == [kind |-> "array", data |-> data]

\* lines 191-204: existing_data after the read of the output file
LoadExisting(f) ==
    IF f.kind = "absent" THEN <<>>                \* os.path.exists is false
    ELSE IF f.kind = "invalid" THEN <<>>          \* JSONDecodeError: stays []
    ELSE IF f.kind = "nonarray" THEN <<>>         \* not a list: reset to []
    ELSE f.data

SaveResultsPrepends(res, f) ==
    LET existing_data == LoadExisting(f)
        combined_data == res \o existing_data
    IN [file |-> ArrayFile(combined_data), ret |-> Len(combined_data)]

\* save_results when the write succeeds: the file it leaves and its result
SaveResults(res, f) ==
    LET existing_data == LoadExisting(f)
        combined_data == existing_data \o res
    IN [file |-> ArrayFile(combined_data), ret |-> Len(combined_data)]

\* save_results when the write raises: open(..., 'w') failed and the file is
\* as it was, or json.dump failed after the file was truncated
WriteFailures(f) == {f, InvalidFile}

NeverSave(res) == FALSE

\* "if results:" before each save_results of main
ShouldSave(res) == res # <<>>

\* ------------------------------------------------------------------- inputs
\* --token, as token.split('.')
Tokens ==
    { <<"hdr", seg, "sig">> : seg \in {"seg_not_base64", "seg_not_json", "seg_number",
                                        "seg_no_aud", "seg_aud_other", "seg_aud_api"} }
    \cup { <<"seg_aud_api">>, <<"hdr", "seg_aud_api">>, <<"hdr", "seg_aud_api", "sig", "x">> }

\* --email, as its pieces
Templates ==
    { <<"u", Placeholder, "@", "x.com">>,
      <<Placeholder, "+", Placeholder, "@", "x.com">>,
      <<"u", "@", "x.com">> }

OldResult(i) ==
    [success |-> TRUE,
     user |-> [user_id |-> "auth0|old" \o Str(i), email |-> "old" \o Str(i) \o "@x.com",
               email_verified |-> TRUE],
     role_assigned |-> TRUE]

\* what --output may hold when the run starts
Files ==
    {AbsentFile, InvalidFile, NonArrayFile}
    \cup { ArrayFile([i \in 1..n |-> OldResult(i)]) : n \in 0..MaxOld }

RoleIds == {"rol_a", "rol_b"}

\* roles_response.json() of a 200
RoleLists ==
    UNION { [1..n -> {[id |-> r, name |-> r] : r \in RoleIds}] : n \in 0..MaxRoles }

\* one line of standard input, as its characters
Lines == UNION { [1..n -> InputChars] : n \in 0..MaxInputLen }

CreateResponses ==
    { [status |-> 201, has_user_id |-> TRUE], [status |-> 201, has_user_id |-> FALSE],
      [status |-> 200, has_user_id |-> TRUE], [status |-> 409, has_user_id |-> FALSE] }

AssignStatuses == {204, 400}

RolesStatuses == {200, 401}

Args ==
    [token : Tokens, email : Templates, start : 1..MaxNum, end : 1..MaxNum,
     role_id : {"", "rol_cli"}, debug : BOOLEAN]

\* -------------------------------------------------------------------- state
VARIABLES
    args,         \* the parsed command line
    pc,           \* where main() is
    api_url,      \* extract_api_url_from_token(args.token)
    roles,        \* get_roles(...)
    role_id,      \* the role given or chosen
    num,          \* the loop variable of "for num in range(start, end + 1)"
    email,        \* the pieces of the email of this iteration
    user,         \* user_response.json() / mock_response inside create_user
    response,     \* what create_user returned
    results,      \* the accumulator
    total_saved,  \* what save_results returned
    file,         \* the output file
    exit_code,    \* the exit status, -1 while the process runs
    netLog,       \* history: the HTTP requests issued, in order
    replies,      \* history: the status each request returned, 0 if it raised
    attempts,     \* history: the emails create_user was called with, in order
    created,      \* history: the emails whose create request returned 201
    stop,         \* history: why and at which user the run stopped
    writeFailed,  \* history: some write of the output file raised
    file0,        \* history: the output file when the run started
    line,         \* history: the last line read at the prompt
    prompts,      \* history: lines read at the prompt
    calls         \* history: the calls of save_results of the harness

vars ==
    << args, pc, api_url, roles, role_id, num, email, user, response, results,
       total_saved, file, exit_code, netLog, replies, attempts, created, stop, writeFailed,
       file0, line, prompts, calls >>

runVars == << api_url, roles, role_id, num, email, user, response, results, total_saved >>
histVars == << netLog, replies, attempts, created, stop, writeFailed >>
harnessVars == << line, prompts, calls >>

NoUser == [user_id |-> "", email |-> "", email_verified |-> FALSE]
NoResponse == [success |-> FALSE, error |-> "", status_code |-> 0]
Running == [kind |-> "none", k |-> 0]

\* the state before anything ran, for a command line and an output file;
\* main() starts at "extract"
Start(a, f, at) ==
    /\ args = a
    /\ pc = at
    /\ api_url = ""
    /\ roles = <<>>
    /\ role_id = ""
    /\ num = a.start
    /\ email = <<>>
    /\ user = NoUser
    /\ response = NoResponse
    /\ results = <<>>
    /\ total_saved = 0
    /\ file = f
    /\ exit_code = -1
    /\ netLog = <<>>
    /\ replies = <<>>
    /\ attempts = <<>>
    /\ created = <<>>
    /\ stop = Running
    /\ writeFailed = FALSE
    /\ file0 = f
    /\ line = <<>>
    /\ prompts = 0
    /\ calls = <<>>

Init == \E a \in Args, f \in Files : Start(a, f, "extract")

\* sys.exit(code), or an exception nothing catches (the interpreter exits 1)
Exit(code, why) ==
    /\ pc' = "exited"
    /\ exit_code' = code
    /\ stop' = why

\* ------------------------------------------------------------------ main()
\* line 240: api_url = extract_api_url_from_token(args.token)
ExtractApiUrl ==
    /\ pc = "extract"
    /\ LET r == ExtractApiUrlFromToken(args.token)
       IN IF r.exit
          THEN /\ Exit(1, [kind |-> "token", k |-> 0])
               /\ UNCHANGED api_url
          ELSE /\ api_url' = r.api_url
               /\ pc' = "validate"
               /\ UNCHANGED << exit_code, stop >>
    /\ UNCHANGED << args, roles, role_id, num, email, user, response, results, total_saved,
                    file, netLog, replies, attempts, created, writeFailed, file0, harnessVars >>

RangeOkAlways(first, last) == TRUE

\* args.start > args.end
RangeOk(first, last) == first <= last

\* lines 243-249: the template and the range
ValidateArgs ==
    /\ pc = "validate"
    /\ IF ~Contains(args.email, Placeholder) \/ ~RangeOk(args.start, args.end)
       THEN Exit(1, [kind |-> "validation", k |-> 0])
       ELSE /\ pc' = "role"
            /\ UNCHANGED << exit_code, stop >>
    /\ UNCHANGED << args, runVars, file, netLog, replies, attempts, created, writeFailed, file0,
                    harnessVars >>

\* lines 252-254 and get_roles: the role given, or the roles fetched
ResolveRole ==
    /\ pc = "role"
    /\ IF args.role_id # ""
       THEN /\ role_id' = args.role_id
            /\ pc' = "loop"
            /\ UNCHANGED << roles, netLog, replies, exit_code, stop >>
       ELSE \E raised \in BOOLEAN, status \in RolesStatuses, list \in RoleLists :
            /\ netLog' = IssueRequest(netLog, RolesRequest(api_url), args.debug)
            /\ replies' = IF args.debug THEN replies
                           ELSE Append(replies, IF raised THEN 0 ELSE status)
            /\ UNCHANGED role_id
            /\ IF args.debug
               THEN /\ roles' = mock_roles
                    /\ pc' = "prompt"
                    /\ UNCHANGED << exit_code, stop >>
               ELSE IF raised
               THEN /\ Exit(1, [kind |-> "roles_raised", k |-> 0])
                    /\ UNCHANGED roles
               ELSE IF status # 200
               THEN /\ Exit(1, [kind |-> "roles_failed", k |-> 0])
                    /\ UNCHANGED roles
               ELSE /\ roles' = list
                    /\ pc' = "prompt"
                    /\ UNCHANGED << exit_code, stop >>
    /\ UNCHANGED << args, api_url, num, email, user, response, results, total_saved, file,
                    attempts, created, writeFailed, file0, harnessVars >>

\* line 255, prompt_role_selection lines 88-100: one line read at the prompt.
\* `recorded` is set by the harness of the prompt, which keeps the line read.
PromptLine(recorded) ==
    /\ pc = "prompt"
    /\ recorded => prompts < MaxPrompts
    /\ \E typed \in Lines :
          LET r == PromptOnce(roles, typed)
          IN /\ IF recorded
                THEN line' = typed /\ prompts' = prompts + 1
                ELSE UNCHANGED << line, prompts >>
             /\ IF r.returned
                THEN /\ role_id' = r.role_id
                     /\ pc' = "loop"
                     /\ UNCHANGED << exit_code, stop >>
                ELSE IF r.raised
                THEN /\ Exit(1, [kind |-> "prompt_raised", k |-> 0])
                     /\ UNCHANGED role_id
                ELSE UNCHANGED << role_id, pc, exit_code, stop >>
    /\ UNCHANGED << args, api_url, roles, num, email, user, response, results, total_saved,
                    file, netLog, replies, attempts, created, writeFailed, file0, calls >>

PromptRoleSelection == PromptLine(FALSE)

\* input() at the end of standard input: EOFError, which nothing catches
PromptEof ==
    /\ pc = "prompt"
    /\ Exit(1, [kind |-> "eof", k |-> 0])
    /\ UNCHANGED << args, runVars, file, netLog, replies, attempts, created, writeFailed, file0,
                    harnessVars >>

InRangeExclusive(n, last) == n < last

\* num in range(args.start, args.end + 1)
InRange(n, last) == n < last + 1

\* the 1-based position of the user of this iteration
Position == num - args.start + 1

\* lines 260-264 and create_user lines 103-153: the next email and its create
\* request
CreateUser ==
    /\ pc = "loop"
    /\ InRange(num, args.end)
    /\ LET pieces == EmailPieces(args.email, num)
       IN /\ email' = pieces
          /\ attempts' = Append(attempts, Join(pieces))
          /\ netLog' = IssueRequest(netLog, CreateUserRequest(api_url, pieces), args.debug)
          /\ IF args.debug
             THEN /\ user' = MockResponse(pieces)
                  /\ pc' = "assign"
                  /\ UNCHANGED << response, created, stop, replies >>
             ELSE \E raised \in BOOLEAN, resp \in CreateResponses :
                  /\ replies' = Append(replies, IF raised THEN 0 ELSE resp.status)
                  /\ IF raised
                     THEN /\ pc' = "except"
                          /\ stop' = [kind |-> "raised", k |-> Position]
                          /\ UNCHANGED << user, response, created >>
                     ELSE IF ~CreateOk(resp.status)
                     THEN /\ response' = CreateFailed(resp.status)
                          /\ pc' = "handle"
                          /\ stop' = [kind |-> "failed", k |-> Position]
                          /\ created' = IF resp.status = 201 THEN Append(created, Join(pieces))
                                        ELSE created
                          /\ UNCHANGED user
                     ELSE IF ~resp.has_user_id
                     THEN /\ pc' = "except"          \* KeyError: 'user_id'
                          /\ stop' = [kind |-> "raised", k |-> Position]
                          /\ created' = IF resp.status = 201 THEN Append(created, Join(pieces))
                                        ELSE created
                          /\ UNCHANGED << user, response >>
                     ELSE /\ user' = ServerUser(pieces)
                          /\ pc' = "assign"
                          /\ created' = IF resp.status = 201 THEN Append(created, Join(pieces))
                                        ELSE created
                          /\ UNCHANGED << response, stop >>
    /\ UNCHANGED << args, api_url, roles, role_id, num, results, total_saved, file,
                    exit_code, writeFailed, file0, harnessVars >>

\* create_user lines 155-186: the role assignment request and the result
AssignRole ==
    /\ pc = "assign"
    /\ netLog' = IssueRequest(netLog, AssignRoleRequest(api_url, user.user_id, role_id),
                              args.debug)
    /\ IF args.debug
       THEN /\ response' = ProvisionedDebug(user)
            /\ pc' = "handle"
            /\ UNCHANGED << stop, replies >>
       ELSE \E raised \in BOOLEAN, status \in AssignStatuses :
            /\ replies' = Append(replies, IF raised THEN 0 ELSE status)
            /\ IF raised
               THEN /\ pc' = "except"
                    /\ stop' = [kind |-> "raised", k |-> Position]
                    /\ UNCHANGED response
               ELSE IF ~AssignOk(status)
               THEN /\ response' = AssignFailed(user, status)
                    /\ pc' = "handle"
                    /\ stop' = [kind |-> "failed", k |-> Position]
               ELSE /\ response' = Provisioned(user)
                    /\ pc' = "handle"
                    /\ UNCHANGED stop
    /\ UNCHANGED << args, api_url, roles, role_id, num, email, user, results, total_saved,
                    file, exit_code, attempts, created, writeFailed, file0, harnessVars >>

SucceededAlways(resp) == TRUE

\* if response["success"]:
Succeeded(resp) == resp.success

\* save_results(results, args.output) called at a place whose success leads
\* to sys.exit(code) and whose exception leads to the except clause
SaveThenExit(code) ==
    \E ok \in BOOLEAN, broken \in WriteFailures(file) :
       IF ok
       THEN /\ file' = SaveResults(results, file).file
            /\ total_saved' = SaveResults(results, file).ret
            /\ pc' = "exited"
            /\ exit_code' = code
            /\ UNCHANGED writeFailed
       ELSE /\ file' = broken
            /\ writeFailed' = TRUE
            /\ pc' = "except"
            /\ UNCHANGED << total_saved, exit_code >>

\* lines 266-275: the result of create_user
HandleResponse ==
    /\ pc = "handle"
    /\ IF Succeeded(response)
       THEN /\ results' = Append(results, response)
            /\ num' = num + 1
            /\ pc' = "loop"
            /\ UNCHANGED << total_saved, file, exit_code, writeFailed >>
       ELSE /\ IF ShouldSave(results)
               THEN SaveThenExit(1)
               ELSE /\ pc' = "exited"
                    /\ exit_code' = 1
                    /\ UNCHANGED << total_saved, file, writeFailed >>
            /\ UNCHANGED << results, num >>
    /\ UNCHANGED << args, api_url, roles, role_id, email, user, response, netLog, replies, attempts,
                    created, stop, file0, harnessVars >>

\* lines 277-282: the loop is over
LoopEnd ==
    /\ pc = "loop"
    /\ ~InRange(num, args.end)
    /\ IF ShouldSave(results)
       THEN SaveThenExit(0)
       ELSE /\ pc' = "exited"
            /\ exit_code' = 0
            /\ UNCHANGED << total_saved, file, writeFailed >>
    /\ stop' = IF pc' = "except" THEN [kind |-> "save_raised", k |-> 0]
               ELSE [kind |-> "completed", k |-> 0]
    /\ UNCHANGED << args, api_url, roles, role_id, num, email, user, response, results,
                    netLog, replies, attempts, created, file0, harnessVars >>

\* lines 284-289: except Exception
ExceptHandler ==
    /\ pc = "except"
    /\ pc' = "exited"
    /\ exit_code' = 1
    /\ IF ShouldSave(results)
       THEN \E ok \in BOOLEAN, broken \in WriteFailures(file) :
               IF ok
               THEN /\ file' = SaveResults(results, file).file
                    /\ UNCHANGED writeFailed
               ELSE /\ file' = broken        \* the exception leaves main()
                    /\ writeFailed' = TRUE
       ELSE UNCHANGED << file, writeFailed >>
    /\ UNCHANGED << args, runVars, netLog, replies, attempts, created, stop, file0, harnessVars >>

Next ==
    \/ ExtractApiUrl
    \/ ValidateArgs
    \/ ResolveRole
    \/ PromptRoleSelection
    \/ PromptEof
    \/ CreateUser
    \/ AssignRole
    \/ HandleResponse
    \/ LoopEnd
    \/ ExceptHandler

Spec == Init /\ [][Next]_vars

\* ------------------------------------------------- the result store, alone
\* The command line of the runs the two harnesses below stand in.
HarnessArgs ==
    [token |-> <<"hdr", "seg_aud_api", "sig">>, email |-> <<"u", Placeholder, "@", "x.com">>,
     start |-> 1, end |-> MaxNum, role_id |-> "", debug |-> FALSE]

\* result lists save_results is called with: the results of the users
\* a .. a+n-1 of one run
NewResults ==
    { [i \in 1..n |-> Provisioned(ServerUser(EmailPieces(HarnessArgs.email, a + i - 1)))] :
        a \in 1..MaxNum, n \in 0..MaxNum }

StoreInit == \E f \in Files : Start(HarnessArgs, f, "store")

\* one call save_results(new, path), which returns or raises on the write
StoreSave ==
    /\ pc = "store"
    /\ Len(calls) < MaxSaves
    /\ \E new \in NewResults, ok \in BOOLEAN, broken \in WriteFailures(file) :
          /\ results' = new
          /\ IF ok
             THEN /\ file' = SaveResults(new, file).file
                  /\ total_saved' = SaveResults(new, file).ret
                  /\ UNCHANGED writeFailed
             ELSE /\ file' = broken
                  /\ writeFailed' = TRUE
                  /\ UNCHANGED total_saved
          /\ calls' = Append(calls, [before |-> file, new |-> new, returned |-> ok,
                                     after |-> file', ret |-> total_saved'])
    /\ UNCHANGED << args, pc, api_url, roles, role_id, num, email, user, response,
                    exit_code, netLog, replies, attempts, created, stop, file0, line, prompts >>

StoreNext == StoreSave

StoreSpec == StoreInit /\ [][StoreNext]_vars

\* ---------------------------------------------------- the role prompt, alone
PromptInit ==
    \E list \in RoleLists \cup {mock_roles} :
       /\ roles = list
       /\ args = HarnessArgs
       /\ pc = "prompt"
       /\ api_url = ""
       /\ role_id = ""
       /\ num = 1
       /\ email = <<>>
       /\ user = NoUser
       /\ response = NoResponse
       /\ results = <<>>
       /\ total_saved = 0
       /\ file = AbsentFile
       /\ exit_code = -1
       /\ netLog = <<>>
       /\ replies = <<>>
       /\ attempts = <<>>
       /\ created = <<>>
       /\ stop = Running
       /\ writeFailed = FALSE
       /\ file0 = AbsentFile
       /\ line = <<>>
       /\ prompts = 0
       /\ calls = <<>>

PromptRecorded == PromptLine(TRUE)

PromptNext == PromptRecorded \/ PromptEof

PromptSpec == PromptInit /\ [][PromptNext]_vars

\* ------------------------------------------------------------------ claims
\* Notions the claims are stated in.

\* the array a file holds, empty when it holds none
PreviousArray(f) == IF f.kind = "array" THEN f.data ELSE <<>>

\* the number of users of the range
RangeSize == args.end - args.start + 1

\* the email of the user at 1-based position i of the range
EmailAt(i) == Email(args.email, args.start + i - 1)

EmailsOf(list) == [i \in DOMAIN list |-> list[i].user.email]

\* the requests of the provisioning steps (not the role fetch)
ProvisioningLog == SelectSeq(netLog, LAMBDA r : r.op # "roles")

\* the command line fails the pre-flight checks the claims name
TokenMalformed ==
    \/ Len(args.token) # 3
    \/ args.token[2] \in {"seg_not_base64", "seg_not_json", "seg_no_aud", "seg_aud_other"}
TemplateInvalid == ~Contains(args.email, Placeholder)
RangeInvalid == args.start > args.end

\* the loop stopped at a user: a failed result or an unexpected error
StoppedAtUser == pc = "exited" /\ stop.kind \in {"failed", "raised"}

\* the results in memory are the tail of the array in the output file
Flushed ==
    results # <<>> =>
       /\ file.kind = "array"
       /\ Len(file.data) >= Len(results)
       /\ SubSeq(file.data, Len(file.data) - Len(results) + 1, Len(file.data)) = results

C2_SequentialRange ==
    (pc = "exited" /\ stop.kind \in {"completed", "save_raised"} /\ ~TemplateInvalid
       /\ ~RangeInvalid) =>
       /\ attempts = [i \in 1..RangeSize |-> EmailAt(i)]
       /\ Len(results) = RangeSize
       /\ ~args.debug =>
             /\ Len(ProvisioningLog) = 2 * RangeSize
             /\ \A i \in 1..RangeSize :
                   /\ ProvisioningLog[2 * i - 1].op = "create"
                   /\ ProvisioningLog[2 * i - 1].body.email = EmailAt(i)
                   /\ ProvisioningLog[2 * i].op = "assign"
                   /\ ProvisioningLog[2 * i].url
                        = api_url \o "users/" \o results[i].user.user_id \o "/roles"

C2_Witness ==
    /\ pc = "exited"
    /\ exit_code = 0
    /\ ~args.debug
    /\ args.start = 1
    /\ args.end = 3
    /\ attempts = <<"u1@x.com", "u2@x.com", "u3@x.com">>
    /\ Len(ProvisioningLog) = 6

\* C3: once a provisioning has returned a failed result no request is issued
\* any more and no email is attempted any more.
C3_FailFast ==
    [][stop.kind = "failed" => (netLog' = netLog /\ attempts' = attempts)]_vars

\* C3 witness: the first of several users failed and the run is over with
\* the requests of that user only.
C3_Witness ==
    /\ pc = "exited"
    /\ stop = [kind |-> "failed", k |-> 1]
    /\ args.end > args.start
    /\ Len(attempts) = 1
    /\ Len(ProvisioningLog) = 2

\* C4: a malformed token, a template without the placeholder or start > end
\* aborts the run with a non-zero exit before any network call.
C4_PreflightBeforeNetwork ==
    (TokenMalformed \/ TemplateInvalid \/ RangeInvalid) =>
       /\ netLog = <<>>
       /\ attempts = <<>>
       /\ pc \in {"extract", "validate", "exited"}
       /\ pc = "exited" => exit_code # 0

C4_Witness ==
    /\ pc = "exited"
    /\ exit_code = 1
    /\ ~args.debug
    /\ args.token = <<"hdr", "seg_aud_other", "sig">>
    /\ ~TemplateInvalid
    /\ ~RangeInvalid
    /\ netLog = <<>>

\* C5: in debug mode no request is ever issued, the roles are the fixture of
\* three, and every user of the range yields a successful result.
C5_DryRunNoNetwork ==
    args.debug =>
       /\ netLog = <<>>
       /\ pc = "prompt" => roles = mock_roles
       /\ stop.kind \notin {"failed", "raised", "roles_failed", "roles_raised"}
       /\ pc = "handle" => (response.success /\ response.role_assigned)
       /\ \A i \in DOMAIN results :
             results[i].success /\ results[i].role_assigned
                /\ results[i].user.email = EmailAt(i)
       /\ stop.kind \in {"completed", "save_raised"} => Len(results) = RangeSize

C5_Witness ==
    /\ args.debug
    /\ pc = "exited"
    /\ exit_code = 0
    /\ role_id = "rol_2"
    /\ Len(results) = 3
    /\ results[1].user.user_id = "auth0|debug-u1-at-x.com"
    /\ netLog = <<>>

\* Every call of save_results that returned left the file holding R followed
\* by the new results, R being the array the file held before (empty for an
\* absent file, invalid JSON or content that is no array), and returned the
\* length of that array.
SaveAppends ==
    \A i \in DOMAIN calls :
       calls[i].returned =>
          /\ calls[i].after = ArrayFile(PreviousArray(calls[i].before) \o calls[i].new)
          /\ calls[i].ret = Len(PreviousArray(calls[i].before)) + Len(calls[i].new)

TwoSavesReturned == Len(calls) = 2 /\ calls[1].returned /\ calls[2].returned

\* C6 as stated: SaveAppends, and two successive saves to one path yield an
\* array whose length is the sum of both inputs' lengths, the first call's
\* results before the second's.
C6_Original ==
    /\ SaveAppends
    /\ TwoSavesReturned =>
          /\ file.kind = "array"
          /\ Len(file.data) = Len(calls[1].new) + Len(calls[2].new)
          /\ file.data = calls[1].new \o calls[2].new

\* C6 amended: SaveAppends, and two successive saves to one path yield the
\* array R the path held before the first call (empty if it held none)
\* followed by the first call's results and then the second's, so its length
\* is len(R) plus the sum of both inputs' lengths.
C6_SaveMerges ==
    /\ SaveAppends
    /\ TwoSavesReturned =>
          /\ file.kind = "array"
          /\ file.data = PreviousArray(file0) \o calls[1].new \o calls[2].new
          /\ Len(file.data)
               = Len(PreviousArray(file0)) + Len(calls[1].new) + Len(calls[2].new)

\* C6 witness: two saves of disjoint results, the first onto invalid JSON.
C6_Witness ==
    /\ TwoSavesReturned
    /\ file0 = InvalidFile
    /\ Len(calls[1].new) = 2
    /\ Len(calls[2].new) = 1
    /\ \A i \in 1..2 : calls[1].new[i] # calls[2].new[1]
    /\ total_saved = 3
    /\ Len(file.data) = 3

\* the run ended in one of the failures C7 names
RunFailed ==
    \/ TokenMalformed
    \/ TemplateInvalid
    \/ RangeInvalid
    \/ stop.kind = "failed"
    \/ stop.kind \in {"raised", "roles_raised", "save_raised", "eof", "prompt_raised"}

\* every email of the range was provisioned and the results are in the file
FullSuccess ==
    /\ ~TokenMalformed /\ ~TemplateInvalid /\ ~RangeInvalid
    /\ EmailsOf(results) = [i \in 1..RangeSize |-> EmailAt(i)]
    /\ Flushed

LastCreate == CHOOSE i \in DOMAIN netLog :
                 netLog[i].op = "create" /\ \A j \in DOMAIN netLog : j > i => netLog[j].op # "create"

\* C8: without debug, create_user returns success (with role_assigned) iff
\* the create request returned 201 and the role request 204; after a non-201
\* no role request is issued; after a non-204 the failure carries the created
\* user, and no request other than the three the tool knows is ever issued.
C8_ProvisionResult ==
    ~args.debug =>
       /\ \A i \in DOMAIN netLog :
             netLog[i].op \in {"roles", "create", "assign"} /\ netLog[i].method \in {"GET", "POST"}
       /\ pc = "handle" =>
             LET c == LastCreate
             IN /\ response.success <=>
                      (replies[c] = 201 /\ Len(netLog) = c + 1 /\ replies[c + 1] = 204)
                /\ response.success => response.role_assigned
                /\ replies[c] # 201 => Len(netLog) = c
                /\ (replies[c] = 201 /\ ~response.success) =>
                      /\ Len(netLog) = c + 1
                      /\ netLog[c + 1].op = "assign"
                      /\ response.user_created.email = Join(email)
                      /\ response.status_code = replies[c + 1]

C8_Witness ==
    /\ ~args.debug
    /\ pc = "handle"
    /\ ~response.success
    /\ response.error = "Failed to assign role"
    /\ response.user_created.email = "u1@x.com"
    /\ replies[LastCreate] = 201

\* the line read is an integer n with 1 <= n <= len(roles)
Selects(typed, n) == ParseInt(typed).ok /\ ParseInt(typed).value = n /\ 1 <= n /\ n <= Len(roles)

\* C9: each line read at the prompt that is no integer n with
\* 1 <= n <= len(roles) leaves the prompt waiting and changes nothing else;
\* the first line that is such an integer returns the id of the role at
\* position n, which is an id of the list.
C9_SelectRole ==
    [][(pc = "prompt" /\ prompts' # prompts) =>
          IF \E n \in 1..Len(roles) : Selects(line', n)
          THEN /\ pc' = "loop"
               /\ \A n \in 1..Len(roles) : Selects(line', n) => role_id' = roles[n].id
               /\ \E n \in 1..Len(roles) : role_id' = roles[n].id
          ELSE /\ pc' = "prompt"
               /\ UNCHANGED << args, runVars, file, exit_code, histVars, file0, calls >>]_vars

\* C9 witness: a first line that was refused, then "2" returned the second
\* role.
C9_Witness ==
    /\ pc = "loop"
    /\ prompts = 2
    /\ line = <<"2">>
    /\ Len(roles) >= 2
    /\ role_id = roles[2].id

\* the results this run added to the output file
Recorded ==
    IF file.kind = "array" /\ file # file0
    THEN SubSeq(file.data, Len(PreviousArray(file0)) + 1, Len(file.data))
    ELSE <<>>

\* the request log shows both steps of this user succeeding
BothStepsSucceeded(u) ==
    /\ \E i \in DOMAIN netLog :
          netLog[i].op = "create" /\ netLog[i].body.email = u.email /\ replies[i] = 201
    /\ \E i \in DOMAIN netLog :
          /\ netLog[i].op = "assign"
          /\ netLog[i].url = api_url \o "users/" \o u.user_id \o "/roles"
          /\ replies[i] = 204

\* C10: without debug and with no write raising, when the run is over every
\* user whose create request returned 201 is in the output file except
\* possibly the last user attempted, so at most one created user is missing,
\* and every user recorded had both steps succeed.
C10_CreatedUsersRecorded ==
    (pc = "exited" /\ ~args.debug /\ ~writeFailed) =>
       /\ \A i \in DOMAIN created :
             \/ \E j \in DOMAIN Recorded : Recorded[j].user.email = created[i]
             \/ created[i] = attempts[Len(attempts)]
       /\ Cardinality({i \in DOMAIN created :
                         ~\E j \in DOMAIN Recorded : Recorded[j].user.email = created[i]}) <= 1
       /\ \A j \in DOMAIN Recorded : BothStepsSucceeded(Recorded[j].user)

\* C10 witness: two users were created, the role request of the second
\* raised, and only the first is in the file.
C10_Witness ==
    /\ pc = "exited"
    /\ ~args.debug
    /\ ~writeFailed
    /\ stop = [kind |-> "raised", k |-> 2]
    /\ Len(created) = 2
    /\ Len(Recorded) = 1
    /\ Recorded[1].user.email = created[1]

====
